---- MODULE Spec2Model ----
(***************************************************************************)
(* Koala <-> Ableton MIDI converter (koala_ableton_midi_converter.py).     *)
(*                                                                         *)
(* Three specifications over one set of variables:                         *)
(*   SpecNote  - the mapping core (remap_within_32, remap_note,            *)
(*               clamp_midi, forward_koala_to_ableton,                     *)
(*               inverse_ableton_to_koala) applied to every note value;    *)
(*   SpecConv  - convert_midi applied to bounded MIDI files;               *)
(*   SpecBatch - App.run (batch loop and single file), safe_backup and     *)
(*               write_with_optional_overwrite over a file system.         *)
(*                                                                         *)
(* A function of the program whose result is used several times is split   *)
(* into operators that take the result as a parameter.                     *)
(***************************************************************************)
EXTENDS Integers, Sequences, FiniteSets, TLC

VARIABLES
    nt_in,          \* mapping core: the argument
    nt_op,          \* mapping core: which function has been applied
    nt_out,         \* mapping core: the value(s) returned so far
    fs,             \* the file system: a function from the paths that exist
                    \* to their contents
    cv_mode,        \* convert_midi: the mode argument
    cv_pc,          \* convert_midi: "ready", "returned" or "raised"
    cv_ret,         \* convert_midi: the total, changed, clamped it returned
    cv_err,         \* convert_midi: the error it raised
    app_mode,       \* App.mode: "K2A" or "A2K"
    app_batch,      \* App.batch
    app_recursive,  \* App.recursive
    app_overwrite,  \* App.overwrite
    recursive_cb,   \* state of the "Include subfolders" checkbox
    pc,             \* App.run: "idle", "loop" (in the batch loop) or "shown"
                    \* (the result message is on screen)
    midi_files,     \* App.run: the files discovered, in the order of the loop
    idx,            \* App.run: position of the loop in midi_files
    totals,         \* App.run: total_files, total_events, total_changed,
                    \*          total_clamped, total_backups
    failures,       \* App.run: the failure messages
    results,        \* history: per file of the batch, what the iteration did
    last,           \* history: the last conversion (of a batch or single)
    fs0,            \* history: the file system when run started
    refused         \* history: how many operations the system has refused

noteVars == <<nt_in, nt_op, nt_out>>

convVars == <<cv_mode, cv_pc, cv_ret, cv_err>>

optVars == <<app_mode, app_batch, app_recursive, app_overwrite, recursive_cb>>

runVars ==
    <<pc, midi_files, idx, totals, failures, results, last, fs0, refused>>

vars == <<noteVars, fs, convVars, optVars, runVars>>

(***************************************************************************)
(* Program constants and bounds                                            *)
(***************************************************************************)
OCTAVE_SHIFT == 36

\* the largest MIDI note number
MidiMax == 127

\* how far outside 0..127 the arguments of the mapping core are drawn
NoteMargin == 2

\* longest track of the MIDI files convert_midi is applied to
MaxMsgs == 2

\* Convert is pressed while the folder holds fewer files than this
MaxFiles == 3

\* how many file operations the operating system refuses
MaxRefused == 1

(***************************************************************************)
(* Mapping core                                                            *)
(***************************************************************************)

\* remap_within_32 with the 28-31 block sent back by 4 instead of 12
remap_within_32_block_slip(w) ==
    IF 0 <= w /\ w <= 3 THEN w + 12
    ELSE IF 12 <= w /\ w <= 15 THEN w - 12
    ELSE IF 4 <= w /\ w <= 7 THEN w + 4
    ELSE IF 8 <= w /\ w <= 11 THEN w - 4
    ELSE IF 16 <= w /\ w <= 19 THEN w + 12
    ELSE IF 28 <= w /\ w <= 31 THEN w - 4
    ELSE IF 20 <= w /\ w <= 23 THEN w + 4
    ELSE IF 24 <= w /\ w <= 27 THEN w - 4
    ELSE w

remap_within_32(w) ==
    IF 0 <= w /\ w <= 3 THEN w + 12
    ELSE IF 12 <= w /\ w <= 15 THEN w - 12
    ELSE IF 4 <= w /\ w <= 7 THEN w + 4
    ELSE IF 8 <= w /\ w <= 11 THEN w - 4
    ELSE IF 16 <= w /\ w <= 19 THEN w + 12
    ELSE IF 28 <= w /\ w <= 31 THEN w - 12
    ELSE IF 20 <= w /\ w <= 23 THEN w + 4
    ELSE IF 24 <= w /\ w <= 27 THEN w - 4
    ELSE w

\* return new_note, (new_note != note)
remapped(note, new_note) == <<new_note, new_note # note>>

\* returns <<new_note, changed>>
remap_note(note) ==
    IF note < 0 \/ note > MidiMax THEN <<note, FALSE>>
    ELSE remapped(note, (note - (note % 32)) + remap_within_32(note % 32))

\* returns <<n, did_clamp>>
clamp_midi(n) ==
    IF n < 0 THEN <<0, TRUE>>
    ELSE IF n > MidiMax THEN <<MidiMax, TRUE>>
    ELSE <<n, FALSE>>

\* r2, did_clamp = clamp_midi(r2); return r2, True, did_clamp
shifted(c) == <<c[1], TRUE, c[2]>>

\* forward_koala_to_ableton after r, changed = remap_note(note)
forward_of(note, rc) ==
    IF rc[2] THEN shifted(clamp_midi(rc[1] + OCTAVE_SHIFT))
    ELSE <<note, FALSE, FALSE>>

\* returns <<note, changed, did_clamp>>
forward_koala_to_ableton(note) == forward_of(note, remap_note(note))

\* n2 of inverse_ableton_to_koala; None is -1
shifted_candidate(note) ==
    IF 0 <= note - OCTAVE_SHIFT /\ note - OCTAVE_SHIFT <= MidiMax
    THEN remap_note(note - OCTAVE_SHIFT)[1]
    ELSE -1

\* the returns of inverse_ableton_to_koala with the unshifted candidate first
inverse_choice_unshifted_first(n1, n2, ok1, ok2) ==
    IF ok1 THEN <<n1, FALSE>>
    ELSE IF ok2 THEN <<n2, TRUE>>
    ELSE <<n1, FALSE>>

\* the returns of inverse_ableton_to_koala
inverse_choice(n1, n2, ok1, ok2) ==
    IF ok2 /\ ok1 THEN <<n2, TRUE>>
    ELSE IF ok2 THEN <<n2, TRUE>>
    ELSE IF ok1 THEN <<n1, FALSE>>
    ELSE <<n1, FALSE>>

\* inverse_ableton_to_koala after the two candidates: ok1 and ok2
inverse_of(note, n1, n2) ==
    inverse_choice(n1, n2,
                   forward_koala_to_ableton(n1)[1] = note,
                   IF n2 # -1 THEN forward_koala_to_ableton(n2)[1] = note
                   ELSE FALSE)

\* inverse_ableton_to_koala that only subtracts the octave shift
inverse_shift_only(note) ==
    IF 0 <= note - OCTAVE_SHIFT /\ note - OCTAVE_SHIFT <= MidiMax
    THEN <<note - OCTAVE_SHIFT, TRUE>>
    ELSE <<note, FALSE>>

\* returns <<note, changed>>
inverse_ableton_to_koala(note) ==
    inverse_of(note, note, shifted_candidate(note))

(***************************************************************************)
(* MIDI files and paths                                                    *)
(*                                                                         *)
(* A message is a record with a type and a time; note_on and note_off      *)
(* messages carry channel, note and velocity.  A parsed file is a sequence *)
(* of tracks, a track a sequence of messages.  A file's content is         *)
(* [valid, tracks]: mido.MidiFile raises on a content that is not valid.   *)
(*                                                                         *)
(* A path is [dir, stem, ext, bak]: dir the folders below the chosen       *)
(* folder, bak = -1 for <stem><ext>, 0 for <stem><ext>.bak and i >= 1 for  *)
(* <stem><ext>.bak<i>.  The stem is the sequence of its parts, so that     *)
(* p.stem + suffix is Append(p.stem, suffix).                              *)
(***************************************************************************)
NoteMsg(t, n) ==
    [type |-> t, channel |-> 0, note |-> n,
     velocity |-> IF t = "note_on" THEN 100 ELSE 0,
     time |-> IF t = "note_on" THEN 0 ELSE 96]

MetaMsg(name) == [type |-> "track_name", name |-> name, time |-> 0]

Midi(tracks) == [valid |-> TRUE, tracks |-> tracks]

\* stands for the content of a file that does not exist
NoContent == [valid |-> FALSE, tracks |-> <<>>]

Path(dir, stem) == [dir |-> dir, stem |-> stem, ext |-> ".mid", bak |-> -1]

\* the value of a path variable that holds None
NoPath == [dir |-> <<>>, stem |-> <<>>, ext |-> "", bak |-> -1]

BakPath(path, i) == [path EXCEPT !.bak = i]

\* the function f with path p removed
Remove(f, p) == [q \in DOMAIN f \ {p} |-> f[q]]

\* the function f with path p (over)written with content c
Write(f, p, c) == [q \in DOMAIN f \cup {p} |-> IF q = p THEN c ELSE f[q]]

\* Path.replace(src, dst): rename, overwriting dst; raises when src is missing
\* or the operating system refuses (os_ok false), and then changes nothing.
\* log is the record of the call.
replace(f, src, dst, os_ok) ==
    IF src \in DOMAIN f /\ os_ok
    THEN [fs |-> Write(Remove(f, src), dst, f[src]), raised |-> FALSE,
          log |-> <<[src |-> src, dst |-> dst, ok |-> TRUE]>>]
    ELSE [fs |-> f, raised |-> TRUE,
          log |-> <<[src |-> src, dst |-> dst, ok |-> FALSE]>>]

(***************************************************************************)
(* convert_midi                                                            *)
(***************************************************************************)
NoCount == [total |-> 0, changed |-> 0, clamped |-> 0]

\* a note message counted and, if did_change, rewritten; r is
\* <<new, did_change, did_clamp>>
note_result(msg, r) ==
    [msg |-> IF r[2] THEN [msg EXCEPT !.note = r[1]] ELSE msg,
     total |-> 1,
     changed |-> IF r[2] THEN 1 ELSE 0,
     clamped |-> IF r[3] THEN 1 ELSE 0,
     raised |-> FALSE]

\* convert_msg that treats note_on only, and takes the velocity for the note
convert_msg_note_on_only(msg, mode) ==
    IF msg.type = "note_on"
    THEN [msg |-> [msg EXCEPT !.velocity =
                      IF mode = "K2A"
                      THEN forward_koala_to_ableton(msg.velocity)[1]
                      ELSE inverse_ableton_to_koala(msg.velocity)[1]],
          total |-> 1, changed |-> 1, clamped |-> 0,
          raised |-> mode \notin {"K2A", "A2K"}]
    ELSE [msg |-> msg, total |-> 0, changed |-> 0, clamped |-> 0,
          raised |-> FALSE]

\* the body of the two loops for one message:
\* [msg, total, changed, clamped, raised]
convert_msg(msg, mode) ==
    IF msg.type \in {"note_on", "note_off"}
    THEN IF mode = "K2A"
         THEN note_result(msg, forward_koala_to_ableton(msg.note))
         ELSE IF mode = "A2K"
         THEN note_result(msg, inverse_ableton_to_koala(msg.note) \o <<FALSE>>)
         ELSE [msg |-> msg, total |-> 1, changed |-> 0, clamped |-> 0,
               raised |-> TRUE]
    ELSE [msg |-> msg, total |-> 0, changed |-> 0, clamped |-> 0,
          raised |-> FALSE]

\* the counters and the track being converted (the last of acc.tracks) after
\* one more message, h what convert_msg made of it
add_msg(acc, h) ==
    [tracks |-> [acc.tracks EXCEPT ![Len(acc.tracks)] = Append(@, h.msg)],
     total |-> acc.total + h.total,
     changed |-> acc.changed + h.changed,
     clamped |-> acc.clamped + h.clamped,
     raised |-> h.raised]

\* one iteration of the inner loop; nothing is done once the loop has raised
convert_step(acc, msg, mode) ==
    IF acc.raised THEN acc ELSE add_msg(acc, convert_msg(msg, mode))

\* for msg in track, from the counters in acc
convert_track(acc, track, mode) ==
    LET loop[i \in 0..Len(track)] ==
            IF i = 0 THEN [acc EXCEPT !.tracks = Append(@, <<>>)]
            ELSE convert_step(loop[i - 1], track[i], mode)
    IN loop[Len(track)]

\* for track in mid.tracks: [tracks, total, changed, clamped, raised]
convert_tracks(tracks, mode) ==
    LET loop[t \in 0..Len(tracks)] ==
            IF t = 0
            THEN [tracks |-> <<>>, total |-> 0, changed |-> 0, clamped |-> 0,
                  raised |-> FALSE]
            ELSE convert_track(loop[t - 1], tracks[t], mode)
    IN loop[Len(tracks)]

Raised(f, err) == [fs |-> f, raised |-> TRUE, err |-> err, ret |-> NoCount]

\* convert_midi after the loops: the raise, or mid.save(out_path) and return
save_and_return(f, out_path, r, save_ok) ==
    IF r.raised THEN Raised(f, "Unknown mode")
    ELSE IF ~save_ok THEN Raised(f, "Cannot write")
    ELSE [fs |-> Write(f, out_path, Midi(r.tracks)),
          raised |-> FALSE, err |-> "",
          ret |-> [total |-> r.total, changed |-> r.changed,
                   clamped |-> r.clamped]]

\* convert_midi(in_path, out_path, mode) on file system f; save_ok is whether
\* mid.save can write out_path.  [fs, raised, err, ret]
convert_midi(f, in_path, out_path, mode, save_ok) ==
    IF in_path \notin DOMAIN f THEN Raised(f, "No such file")
    ELSE IF ~f[in_path].valid THEN Raised(f, "Invalid MIDI file")
    ELSE save_and_return(f, out_path,
                         convert_tracks(f[in_path].tracks, mode), save_ok)

(***************************************************************************)
(* Batch pipeline: discovery, backup, overwrite                            *)
(***************************************************************************)

\* iter_midi_files(folder, recursive): a backup's suffix is .bak or .bak<i>
iter_midi_files(f, recursive) ==
    {p \in DOMAIN f :
        /\ p.bak = -1
        /\ p.ext \in {".mid", ".midi"}
        /\ (recursive \/ p.dir = <<>>)}

\* the while loop of safe_backup: the first i >= 1 whose .bak<i> is free
\* (one of the first n + 1 is, n the number of files)
first_free_bak(f, path) ==
    LET loop[i \in 1..(Cardinality(DOMAIN f) + 1)] ==
            IF BakPath(path, i) \notin DOMAIN f THEN i ELSE loop[i + 1]
    IN loop[1]

\* the backup path is always <path>.bak
backup_path_fixed_name(f, path) == BakPath(path, 0)

\* the path safe_backup moves path to
backup_path(f, path) ==
    IF BakPath(path, 0) \notin DOMAIN f
    THEN BakPath(path, 0)
    ELSE BakPath(path, first_free_bak(f, path))

\* path.replace(bak); return bak
moved_to(m, bak) ==
    [fs |-> m.fs, raised |-> m.raised, log |-> m.log,
     bak |-> IF m.raised THEN NoPath ELSE bak]

\* safe_backup with the backup path chosen
backup_to(f, path, bak, os_ok) == moved_to(replace(f, path, bak, os_ok), bak)

\* safe_backup(path): [fs, raised, bak, log]
safe_backup(f, path, os_ok) == backup_to(f, path, backup_path(f, path), os_ok)

\* temp_out.replace(in_path); return backup_path, after the backup b
promoted(b, m) ==
    [fs |-> m.fs, raised |-> m.raised,
     bak |-> IF m.raised THEN NoPath ELSE b.bak,
     log |-> b.log \o m.log]

\* write_with_optional_overwrite after backup_path = safe_backup(in_path)
promote_after(b, in_path, temp_out, os_ok) ==
    IF b.raised
    THEN [fs |-> b.fs, raised |-> TRUE, bak |-> NoPath, log |-> b.log]
    ELSE promoted(b, replace(b.fs, temp_out, in_path, os_ok))

\* the backup made after the promotion m, whatever became of it
backed_up_late(m, b) ==
    [fs |-> b.fs, raised |-> m.raised, bak |-> b.bak, log |-> m.log \o b.log]

promote_then_backup(m, in_path, os_ok) ==
    backed_up_late(m, safe_backup(m.fs, in_path, os_ok))

\* write_with_optional_overwrite that promotes the staging file first
write_promote_first(f, in_path, temp_out, overwrite, io) ==
    IF ~overwrite
    THEN [fs |-> f, raised |-> FALSE, bak |-> NoPath, log |-> <<>>]
    ELSE promote_then_backup(replace(f, temp_out, in_path, io # "promote"),
                             in_path, io # "backup")

\* write_with_optional_overwrite(in_path, temp_out, overwrite); io names the
\* operation the operating system refuses: [fs, raised, bak, log]
write_with_optional_overwrite(f, in_path, temp_out, overwrite, io) ==
    IF ~overwrite
    THEN [fs |-> f, raised |-> FALSE, bak |-> NoPath, log |-> <<>>]
    ELSE promote_after(safe_backup(f, in_path, io # "backup"),
                       in_path, temp_out, io # "promote")

\* "_KoalaToAbleton" if mode == "K2A" else "_AbletonToKoala"
suffix_of(md) == IF md = "K2A" THEN "_KoalaToAbleton" ELSE "_AbletonToKoala"

\* p.with_name(p.stem + suffix + p.suffix)
with_suffixed_name(p, md) == [p EXCEPT !.stem = Append(p.stem, suffix_of(md))]

\* out_dir / (p.stem + suffix + p.suffix), out_dir = folder / "_converted"
in_out_dir(p, md) == [with_suffixed_name(p, md) EXCEPT !.dir = <<"_converted">>]

\* temp_out of the batch loop
batch_temp_out(p, md, overwrite) ==
    IF overwrite THEN with_suffixed_name(p, md) ELSE in_out_dir(p, md)

\* what a conversion leaves in the history variable last: c what
\* convert_midi did, w what write_with_optional_overwrite did after it
Done(f, p, temp_out, overwrite, c, w) ==
    [path |-> p, temp |-> temp_out,
     orig |-> IF p \in DOMAIN f THEN f[p] ELSE NoContent,
     overwrite |-> overwrite,
     saved |-> ~c.raised,
     log |-> IF c.raised THEN <<>> ELSE w.log,
     bak |-> IF c.raised THEN NoPath ELSE w.bak,
     ok |-> ~c.raised /\ ~w.raised,
     err |-> IF c.raised THEN c.err ELSE IF w.raised THEN "Cannot move" ELSE "",
     ret |-> IF c.raised \/ w.raised THEN NoCount ELSE c.ret]

\* f"{p.name}: {e}"
Failure(p, err) == [name |-> <<p.stem, p.ext>>, err |-> err]

\* the totals after a file that converted (c) and was written (w)
counted(tot, c, w) ==
    [total_files |-> tot.total_files + 1,
     total_events |-> tot.total_events + c.ret.total,
     total_changed |-> tot.total_changed + c.ret.changed,
     total_clamped |-> tot.total_clamped + c.ret.clamped,
     total_backups |-> tot.total_backups + IF w.bak # NoPath THEN 1 ELSE 0]

\* the try block with the totals added before the overwrite is done
count_early(tot, fl, p, c, w, d) ==
    IF c.raised
    THEN [fs |-> c.fs, totals |-> tot,
          failures |-> Append(fl, Failure(p, d.err)), last |-> d]
    ELSE IF w.raised
    THEN [fs |-> w.fs, totals |-> counted(tot, c, w),
          failures |-> Append(fl, Failure(p, d.err)), last |-> d]
    ELSE [fs |-> w.fs, totals |-> counted(tot, c, w), failures |-> fl,
          last |-> d]

\* the try block of the loop after its two calls, and its except clause:
\* [fs, totals, failures, last]
count_or_record(tot, fl, p, c, w, d) ==
    IF c.raised
    THEN [fs |-> c.fs, totals |-> tot,
          failures |-> Append(fl, Failure(p, d.err)), last |-> d]
    ELSE IF w.raised
    THEN [fs |-> w.fs, totals |-> tot,
          failures |-> Append(fl, Failure(p, d.err)), last |-> d]
    ELSE [fs |-> w.fs, totals |-> counted(tot, c, w), failures |-> fl,
          last |-> d]

\* the iteration after bak = write_with_optional_overwrite(...)
iteration_written(f, p, temp_out, overwrite, tot, fl, c, w) ==
    count_or_record(tot, fl, p, c, w, Done(f, p, temp_out, overwrite, c, w))

\* the iteration after t, c, cl = convert_midi(p, temp_out, mode)
iteration_converted(f, p, temp_out, overwrite, io, tot, fl, c) ==
    iteration_written(f, p, temp_out, overwrite, tot, fl, c,
        write_with_optional_overwrite(c.fs, p, temp_out, overwrite, io))

\* the iteration with temp_out chosen
iteration_to(f, p, temp_out, md, overwrite, io, tot, fl) ==
    iteration_converted(f, p, temp_out, overwrite, io, tot, fl,
        convert_midi(f, p, temp_out, md, io # "save"))

\* the body of the batch loop for file p: [fs, totals, failures, last]
batch_iteration(f, p, md, overwrite, io, tot, fl) ==
    iteration_to(f, p, batch_temp_out(p, md, overwrite), md, overwrite, io,
                 tot, fl)

single_written(f, p, temp_out, overwrite, c, w) ==
    [fs |-> IF c.raised THEN c.fs ELSE w.fs,
     last |-> Done(f, p, temp_out, overwrite, c, w)]

single_converted(f, p, temp_out, overwrite, io, c) ==
    single_written(f, p, temp_out, overwrite, c,
        write_with_optional_overwrite(c.fs, p, temp_out, overwrite, io))

\* the single-file branch of App.run for the chosen file p: [fs, last]
single_file(f, p, md, overwrite, io) ==
    single_converted(f, p, with_suffixed_name(p, md), overwrite, io,
        convert_midi(f, p, with_suffixed_name(p, md), md, io # "save"))

(***************************************************************************)
(* App: the options and the state of run                                   *)
(***************************************************************************)
NoTotals ==
    [total_files |-> 0, total_events |-> 0, total_changed |-> 0,
     total_clamped |-> 0, total_backups |-> 0]

NoLast ==
    [path |-> NoPath, temp |-> NoPath, orig |-> NoContent, overwrite |-> FALSE,
     saved |-> FALSE, log |-> <<>>, bak |-> NoPath, ok |-> FALSE, err |-> "",
     ret |-> NoCount]

\* App.__init__
AppConstructed ==
    /\ app_mode = "K2A"
    /\ app_batch = FALSE
    /\ app_recursive = FALSE
    /\ app_overwrite = FALSE
    /\ recursive_cb = "normal"

\* run is not executing
RunIdle ==
    /\ pc = "idle"
    /\ midi_files = <<>>
    /\ idx = 1
    /\ totals = NoTotals
    /\ failures = <<>>
    /\ results = <<>>
    /\ last = NoLast
    /\ fs0 = <<>>
    /\ refused = 0

NoteOff == nt_in = 0 /\ nt_op = "off" /\ nt_out = <<>>

ConvOff == cv_mode = "K2A" /\ cv_pc = "off" /\ cv_ret = NoCount /\ cv_err = ""

(***************************************************************************)
(* SpecNote: the mapping core applied to one argument                      *)
(***************************************************************************)
NoteArgs == (0 - NoteMargin) .. (MidiMax + NoteMargin)

InitNote ==
    /\ nt_in \in NoteArgs
    /\ nt_op = "start"
    /\ nt_out = <<>>
    /\ fs = <<>>
    /\ ConvOff
    /\ AppConstructed
    /\ RunIdle

\* remap_note calls remap_within_32 with note % 32 only
ApplyPermute ==
    /\ nt_op = "start"
    /\ nt_in \in 0..31
    /\ nt_op' = "permute"
    /\ nt_out' = <<remap_within_32(nt_in)>>
    /\ UNCHANGED <<nt_in, fs, convVars, optVars, runVars>>

ApplyPermuteAgain ==
    /\ nt_op = "permute"
    /\ nt_op' = "permute2"
    /\ nt_out' = <<remap_within_32(nt_out[1])>>
    /\ UNCHANGED <<nt_in, fs, convVars, optVars, runVars>>

ApplyRemap ==
    /\ nt_op = "start"
    /\ nt_op' = "remap"
    /\ nt_out' = remap_note(nt_in)
    /\ UNCHANGED <<nt_in, fs, convVars, optVars, runVars>>

ApplyForward ==
    /\ nt_op = "start"
    /\ nt_op' = "forward"
    /\ nt_out' = forward_koala_to_ableton(nt_in)
    /\ UNCHANGED <<nt_in, fs, convVars, optVars, runVars>>

ApplyInverse ==
    /\ nt_op = "start"
    /\ nt_op' = "inverse"
    /\ nt_out' = inverse_ableton_to_koala(nt_in)
    /\ UNCHANGED <<nt_in, fs, convVars, optVars, runVars>>

\* inverse applied to the note forward returned; the forward result is kept
ApplyInverseOfForward ==
    /\ nt_op = "forward"
    /\ nt_op' = "roundtrip"
    /\ nt_out' = nt_out \o inverse_ableton_to_koala(nt_out[1])
    /\ UNCHANGED <<nt_in, fs, convVars, optVars, runVars>>

NextNote ==
    \/ ApplyPermute
    \/ ApplyPermuteAgain
    \/ ApplyRemap
    \/ ApplyForward
    \/ ApplyInverse
    \/ ApplyInverseOfForward

(***************************************************************************)
(* SpecConv: one call of convert_midi                                      *)
(***************************************************************************)
SeqsUpTo(S, n) == UNION {[1..k -> S] : k \in 0..n}

ConvMsgs ==
    {NoteMsg("note_on", 0), NoteMsg("note_on", 119), NoteMsg("note_on", 127),
     NoteMsg("note_off", 48), NoteMsg("note_off", 127), MetaMsg("a")}

ConvTracks == SeqsUpTo(ConvMsgs, MaxMsgs)

\* files of no, one and two tracks
ConvFiles ==
    {<<>>} \cup {<<t>> : t \in ConvTracks}
           \cup {<<t, u>> : t \in ConvTracks, u \in ConvTracks}

ConvModes == {"K2A", "A2K", "X"}

CvIn == Path(<<>>, <<"a">>)

CvOut == Path(<<>>, <<"a", "_out">>)

InitConv ==
    /\ NoteOff
    /\ \E tracks \in ConvFiles, valid \in BOOLEAN :
           fs = (CvIn :> [valid |-> valid, tracks |-> tracks])
    /\ cv_mode \in ConvModes
    /\ cv_pc = "ready"
    /\ cv_ret = NoCount
    /\ cv_err = ""
    /\ AppConstructed
    /\ RunIdle

Returned(r) ==
    /\ fs' = r.fs
    /\ cv_pc' = IF r.raised THEN "raised" ELSE "returned"
    /\ cv_ret' = r.ret
    /\ cv_err' = r.err

Convert ==
    /\ cv_pc = "ready"
    /\ \E save_ok \in BOOLEAN :
           Returned(convert_midi(fs, CvIn, CvOut, cv_mode, save_ok))
    /\ UNCHANGED <<cv_mode, noteVars, optVars, runVars>>

NextConv == Convert

(***************************************************************************)
(* SpecBatch: the window's options, Convert on a folder or on one file     *)
(***************************************************************************)
FileA == Path(<<>>, <<"a">>)

FileB == Path(<<>>, <<"a", "_KoalaToAbleton">>)

\* what the folder may hold besides a.mid when the window opens
OptionalFiles == {FileB, BakPath(FileA, 0), BakPath(FileA, 1)}

InitialContent(p, a_valid) ==
    IF p = FileA
    THEN [valid |-> a_valid,
          tracks |-> <<<<MetaMsg("a"), NoteMsg("note_on", 60)>>>>]
    ELSE IF p = FileB
    THEN Midi(<<<<MetaMsg("b"), NoteMsg("note_on", 119),
                  NoteMsg("note_off", 119)>>>>)
    ELSE IF p.bak = 0
    THEN Midi(<<<<MetaMsg("backup")>>>>)
    ELSE Midi(<<<<MetaMsg("backup1")>>>>)

\* the orders in which the files of S may be discovered
Orderings(S) ==
    {q \in [1..Cardinality(S) -> S] :
        \A i, j \in 1..Cardinality(S) : i # j => q[i] # q[j]}

\* the operation of a conversion that the operating system refuses
IoFailures == {"none", "save", "backup", "promote"}

Refusals(io) == IF io = "none" THEN 0 ELSE 1

InitBatch ==
    /\ NoteOff
    /\ ConvOff
    /\ \E S \in SUBSET OptionalFiles, a_valid \in BOOLEAN :
           fs = [p \in {FileA} \cup S |-> InitialContent(p, a_valid)]
    /\ AppConstructed
    /\ RunIdle

\* one of the two direction radio buttons
SetMode(m) ==
    /\ pc = "idle"
    /\ m # app_mode
    /\ app_mode' = m
    /\ UNCHANGED <<app_batch, app_recursive, app_overwrite, recursive_cb>>
    /\ UNCHANGED <<noteVars, fs, convVars, runVars>>

\* the batch checkbox and its command, _toggle_batch_ui
ToggleBatch ==
    /\ pc = "idle"
    /\ app_batch' = ~app_batch
    /\ recursive_cb' = IF app_batch' THEN "normal" ELSE "disabled"
    /\ UNCHANGED <<app_mode, app_recursive, app_overwrite>>
    /\ UNCHANGED <<noteVars, fs, convVars, runVars>>

ToggleRecursive ==
    /\ pc = "idle"
    /\ recursive_cb = "normal"
    /\ app_recursive' = ~app_recursive
    /\ UNCHANGED <<app_mode, app_batch, app_overwrite, recursive_cb>>
    /\ UNCHANGED <<noteVars, fs, convVars, runVars>>

ToggleOverwrite ==
    /\ pc = "idle"
    /\ app_overwrite' = ~app_overwrite
    /\ UNCHANGED <<app_mode, app_batch, app_recursive, recursive_cb>>
    /\ UNCHANGED <<noteVars, fs, convVars, runVars>>

\* App.run with batch on, up to the loop: a folder with MIDI files is chosen
\* and the batch confirmed (every other answer returns with nothing changed)
RunBatch ==
    /\ pc = "idle"
    /\ app_batch
    /\ Cardinality(DOMAIN fs) < MaxFiles
    /\ iter_midi_files(fs, app_recursive) # {}
    /\ midi_files' \in Orderings(iter_midi_files(fs, app_recursive))
    /\ pc' = "loop"
    /\ idx' = 1
    /\ totals' = NoTotals
    /\ failures' = <<>>
    /\ fs0' = fs
    /\ UNCHANGED <<results, last, refused>>
    /\ UNCHANGED <<noteVars, fs, convVars, optVars>>

Iterated(r) ==
    /\ fs' = r.fs
    /\ totals' = r.totals
    /\ failures' = r.failures
    /\ last' = r.last
    /\ results' = Append(results, r.last)

\* one iteration of: for p in midi_files
ProcessFile ==
    /\ pc = "loop"
    /\ idx <= Len(midi_files)
    /\ \E io \in IoFailures :
           /\ refused + Refusals(io) <= MaxRefused
           /\ refused' = refused + Refusals(io)
           /\ Iterated(batch_iteration(fs, midi_files[idx], app_mode,
                                       app_overwrite, io, totals, failures))
    /\ idx' = idx + 1
    /\ UNCHANGED <<pc, midi_files, fs0>>
    /\ UNCHANGED <<noteVars, convVars, optVars>>

\* the loop is over: messagebox.showinfo("Batch done", msg) shows the summary
FinishBatch ==
    /\ pc = "loop"
    /\ idx > Len(midi_files)
    /\ pc' = "shown"
    /\ UNCHANGED <<midi_files, idx, totals, failures, results, last, fs0,
                   refused>>
    /\ UNCHANGED <<noteVars, fs, convVars, optVars>>

SingleDone(r) ==
    /\ fs' = r.fs
    /\ last' = r.last

\* App.run with batch off: a MIDI file is chosen and converted, and the
\* "Done" or "Error" message box is shown
RunSingle ==
    /\ pc = "idle"
    /\ ~app_batch
    /\ Cardinality(DOMAIN fs) < MaxFiles
    /\ \E p \in iter_midi_files(fs, TRUE), io \in IoFailures :
           /\ refused + Refusals(io) <= MaxRefused
           /\ refused' = refused + Refusals(io)
           /\ SingleDone(single_file(fs, p, app_mode, app_overwrite, io))
    /\ pc' = "shown"
    /\ fs0' = fs
    /\ UNCHANGED <<midi_files, idx, totals, failures, results>>
    /\ UNCHANGED <<noteVars, convVars, optVars>>

\* the message box is closed and run returns: its locals are gone
CloseMessage ==
    /\ pc = "shown"
    /\ pc' = "idle"
    /\ midi_files' = <<>>
    /\ idx' = 1
    /\ totals' = NoTotals
    /\ failures' = <<>>
    /\ results' = <<>>
    /\ last' = NoLast
    /\ fs0' = <<>>
    /\ UNCHANGED refused
    /\ UNCHANGED <<noteVars, fs, convVars, optVars>>

NextBatch ==
    \/ \E m \in {"K2A", "A2K"} : SetMode(m)
    \/ ToggleBatch
    \/ ToggleRecursive
    \/ ToggleOverwrite
    \/ RunBatch
    \/ ProcessFile
    \/ FinishBatch
    \/ RunSingle
    \/ CloseMessage

SpecNote == InitNote /\ [][NextNote]_vars

SpecConv == InitConv /\ [][NextConv]_vars

SpecBatch == InitBatch /\ [][NextBatch]_vars

(***************************************************************************)
(* Properties of the mapping core (SpecNote)                               *)
(***************************************************************************)

\* C1: remap_within_32 is a total involution on the residues: for every w in
\* 0..31 its value is in 0..31 and applying it twice gives w back.
C1_Involution ==
    /\ (nt_op = "permute" => nt_out[1] \in 0..31)
    /\ (nt_op = "permute2" => nt_out[1] = nt_in)

\* residue 31 went to 19 and came back
C1_Witness == nt_op = "permute2" /\ nt_in = 31 /\ nt_out = <<31>>

\* C2: for every note n in 0..127 that forward does not clamp, inverse of
\* forward's note is (n, c), c the changed flag forward reported.
C2_RoundTrip ==
    (nt_op = "roundtrip" /\ nt_in \in 0..MidiMax /\ ~nt_out[3])
        => <<nt_out[4], nt_out[5]>> = <<nt_in, nt_out[2]>>

\* 91 is the largest note forward leaves unclamped: 91 -> 87 -> 123 -> 91
C2_Witness ==
    nt_op = "roundtrip" /\ nt_in = 91 /\ nt_out = <<123, TRUE, FALSE, 91, TRUE>>

\* C8: for every note m in 0..127, with n2 the remapped m - 36 (defined when
\* m - 36 is in 0..127), inverse returns (n2, true) whenever n2 is defined and
\* forward(n2) gives m, whether or not forward(m) gives m, and (m, false)
\* otherwise; inverse(48) = (0, true).
C8_InverseOrder ==
    (nt_op = "inverse" /\ nt_in \in 0..MidiMax) =>
        LET m == nt_in
            defined == (m - OCTAVE_SHIFT) \in 0..MidiMax
            n2 == remap_note(m - OCTAVE_SHIFT)[1]
        IN /\ IF defined /\ forward_koala_to_ableton(n2)[1] = m
              THEN nt_out = <<n2, TRUE>>
              ELSE nt_out = <<m, FALSE>>
           /\ (m = 48 => nt_out = <<0, TRUE>>)

\* 127 is where both candidates validate (forward(127) = 127 by clamping and
\* forward(87) = 127): the shifted candidate 87 is returned
C8_Witness ==
    /\ nt_op = "inverse" /\ nt_in = 127 /\ nt_out = <<87, TRUE>>
    /\ forward_koala_to_ableton(127)[1] = 127

(***************************************************************************)
(* Properties of convert_midi (SpecConv)                                   *)
(***************************************************************************)
IsNoteMsg(msg) == msg.type \in {"note_on", "note_off"}

\* the positions <<track, index>> of the note_on and note_off messages
NotePositions(tracks) ==
    {<<t, i>> \in (1..Len(tracks)) \X (1..MaxMsgs + 1) :
        i <= Len(tracks[t]) /\ IsNoteMsg(tracks[t][i])}

Transform(mode, n) ==
    IF mode = "K2A" THEN forward_koala_to_ableton(n)[1]
    ELSE inverse_ableton_to_koala(n)[1]

\* C6: for either direction, the file convert_midi saves has the tracks and
\* messages of the input in number and order, every message that is not
\* note_on/note_off identical, every note message identical but for its note,
\* which is the forward (K2A) or inverse (A2K) transform of the input note;
\* the returned total is the number of note_on/note_off messages.
C6_Frame ==
    (cv_pc = "returned" /\ cv_mode \in {"K2A", "A2K"}) =>
        /\ CvOut \in DOMAIN fs
        /\ fs[CvOut].valid
        /\ LET in == fs[CvIn].tracks
               out == fs[CvOut].tracks
           IN /\ Len(out) = Len(in)
              /\ \A t \in 1..Len(in) :
                    /\ Len(out[t]) = Len(in[t])
                    /\ \A i \in 1..Len(in[t]) :
                          IF IsNoteMsg(in[t][i])
                          THEN out[t][i] =
                                 [in[t][i] EXCEPT
                                     !.note = Transform(cv_mode, in[t][i].note)]
                          ELSE out[t][i] = in[t][i]
              /\ cv_ret.total = Cardinality(NotePositions(in))

\* a two-track A2K conversion: the name message kept, note_off 48 become 0
C6_Witness ==
    /\ cv_pc = "returned" /\ cv_mode = "A2K"
    /\ fs[CvIn].tracks = <<<<MetaMsg("a")>>, <<NoteMsg("note_off", 48), NoteMsg("note_on", 0)>>>>
    /\ fs[CvOut].tracks = <<<<MetaMsg("a")>>, <<NoteMsg("note_off", 0), NoteMsg("note_on", 0)>>>>
    /\ cv_ret.total = 2

\* C7: whenever the mode is neither "K2A" nor "A2K", convert_midi of a
\* readable file (to a writable output path) raises the unknown-mode error,
\* whatever messages the file holds, and writes no output file.
C7_UnknownModeAlwaysRaises ==
    (/\ cv_pc # "ready" /\ cv_mode \notin {"K2A", "A2K"}
     /\ fs[CvIn].valid /\ cv_err # "Cannot write") =>
        /\ cv_pc = "raised"
        /\ cv_err = "Unknown mode"
        /\ CvOut \notin DOMAIN fs

\* C9: the changed count convert_midi returns is the number of note messages
\* whose note in the output differs from the input, and the clamped count is
\* the number of note messages whose remapped note plus 36 exceeded 127 (none
\* in the A2K direction).
C9_ChangedCountExact ==
    (cv_pc = "returned" /\ cv_mode \in {"K2A", "A2K"}) =>
        LET in == fs[CvIn].tracks
            out == fs[CvOut].tracks
        IN /\ cv_ret.changed =
                Cardinality({p \in NotePositions(in) :
                    out[p[1]][p[2]].note # in[p[1]][p[2]].note})
           /\ cv_ret.clamped =
                Cardinality({p \in NotePositions(in) :
                    /\ cv_mode = "K2A"
                    /\ remap_note(in[p[1]][p[2]].note)[1] + OCTAVE_SHIFT > MidiMax})
(***************************************************************************)
(* Properties of the batch pipeline (SpecBatch)                            *)
(***************************************************************************)
IsBackupOf(q, p) == q.bak >= 0 /\ BakPath(q, -1) = p

\* C3: no conversion overwrites a backup: every backup file that exists
\* before a step exists after it with the same content, and a backup file
\* that a step creates is the source file moved to the first path that did
\* not exist among <original>.bak, <original>.bak1, <original>.bak2, ...
C3_BackupsNeverOverwritten ==
    [][/\ \A q \in DOMAIN fs :
              q.bak >= 0 => q \in DOMAIN fs' /\ fs'[q] = fs[q]
       /\ \A q \in DOMAIN fs' \ DOMAIN fs :
              q.bak >= 0 =>
                  LET p == BakPath(q, -1)
                  IN /\ p \in DOMAIN fs
                     /\ fs'[q] = fs[p]
                     /\ \A i \in 0..(q.bak - 1) : BakPath(p, i) \in DOMAIN fs
      ]_vars

\* a.mid converted twice in overwrite mode: its first backup, a.mid.bak, is
\* there with the original content when the second goes to a.mid.bak1
C3_Witness ==
    /\ last.overwrite /\ last.ok
    /\ last.path = FileA
    /\ last.bak = BakPath(FileA, 1)
    /\ fs[BakPath(FileA, 0)] = InitialContent(FileA, TRUE)
    /\ fs[BakPath(FileA, 1)] = last.orig

\* the entries of a conversion's log: moves of the original to a backup path,
\* and moves onto the original's path
IsBackupMove(e, p) == e.src = p /\ IsBackupOf(e.dst, p)

IsPromotion(e, p) == e.dst = p

\* C4: in overwrite mode the staging file is moved onto the original path
\* only right after the move of the original to its backup path succeeded;
\* if that move fails the original is still at its path with its content and
\* no promotion is attempted; with overwrite off nothing is moved and no
\* backup is made.
C4_BackupThenPromote ==
    LET log == last.log
        p == last.path
    IN /\ \A i \in 1..Len(log) :
              IsPromotion(log[i], p) =>
                  i > 1 /\ IsBackupMove(log[i - 1], p) /\ log[i - 1].ok
       /\ (\E i \in 1..Len(log) : IsBackupMove(log[i], p) /\ ~log[i].ok) =>
              /\ \A j \in 1..Len(log) : ~IsPromotion(log[j], p)
              /\ p \in DOMAIN fs
              /\ fs[p] = last.orig
       /\ ~last.overwrite => log = <<>> /\ last.bak = NoPath

\* a batch of two files: the backup of the first was refused, the second was
\* backed up and then replaced by its staging file
C4_Witness ==
    /\ pc = "shown" /\ Len(results) = 2
    /\ results[1].overwrite /\ ~results[1].ok
    /\ Len(results[1].log) = 1
    /\ IsBackupMove(results[1].log[1], results[1].path)
    /\ fs[results[1].path] = results[1].orig
    /\ last.ok /\ Len(last.log) = 2
    /\ IsBackupMove(last.log[1], last.path) /\ IsPromotion(last.log[2], last.path)
    /\ fs[last.bak] = last.orig

SumOf(rs, field) ==
    LET sum[i \in 0..Len(rs)] ==
            IF i = 0 THEN 0 ELSE sum[i - 1] + rs[i].ret[field]
    IN sum[Len(rs)]

FailuresOf(rs) ==
    LET msgs[i \in 0..Len(rs)] ==
            IF i = 0 THEN <<>>
            ELSE IF rs[i].ok THEN msgs[i - 1]
            ELSE Append(msgs[i - 1], Failure(rs[i].path, rs[i].err))
    IN msgs[Len(rs)]

Succeeded(rs) == {i \in 1..Len(rs) : rs[i].ok}

\* C5: in a batch every discovered file is attempted once, in sequence; a
\* failure of one file is one failure message for that file and the loop goes
\* on; files succeeded plus failures recorded is the number of files attempted
\* (at the end: discovered), and the event, changed and clamped totals are the
\* sums over the files that succeeded.
C5_FailureIsolation ==
    midi_files # <<>> =>
        /\ Len(results) = idx - 1
        /\ \A i \in 1..Len(results) : results[i].path = midi_files[i]
        /\ \A i, j \in 1..Len(midi_files) :
               i # j => midi_files[i] # midi_files[j]
        /\ failures = FailuresOf(results)
        /\ totals.total_files = Cardinality(Succeeded(results))
        /\ totals.total_files + Len(failures) = Len(results)
        /\ totals.total_events = SumOf(results, "total")
        /\ totals.total_changed = SumOf(results, "changed")
        /\ totals.total_clamped = SumOf(results, "clamped")
        /\ (pc = "shown" => Len(results) = Len(midi_files))

\* a batch of two files that ended: the first failed, the second succeeded
C5_Witness ==
    /\ pc = "shown" /\ Len(midi_files) = 2 /\ Len(results) = 2
    /\ ~results[1].ok /\ results[2].ok
    /\ Len(failures) = 1 /\ totals.total_files = 1
    /\ totals.total_events = 2

\* C10: in an overwrite-mode batch the staging path a file is converted into
\* is not the path of a file that existed when the batch started, and when
\* the batch has ended the original content of every discovered file is at
\* its own path or at one of its backup paths.
C10_NoUnbackedLoss ==
    (midi_files # <<>> /\ \A i \in 1..Len(results) : results[i].overwrite) =>
        /\ \A i \in 1..Len(results) :
               results[i].saved => results[i].temp \notin DOMAIN fs0
        /\ (pc = "shown" =>
               \A k \in 1..Len(midi_files) :
                   \E q \in DOMAIN fs :
                       /\ fs[q] = fs0[midi_files[k]]
                       /\ (q = midi_files[k] \/ IsBackupOf(q, midi_files[k])))
====
